---- MODULE Spec2Model ----
(***************************************************************************)
(* soshell (src/src/main.c): an interactive shell.  The model covers the   *)
(* loop driver, the line reader, the tokenizer, the dispatcher with its    *)
(* five builtins and the fork/exec/wait process launcher.                  *)
(*                                                                         *)
(* Processes: process 0 is the shell; processes 1..MaxLines are the        *)
(* children it forks.  A child starts as a copy of its parent inside       *)
(* soshell_launch and runs the same program text until execvp replaces     *)
(* its image.                                                              *)
(*                                                                         *)
(* Characters are one-element strings; a C string is a sequence of         *)
(* characters closed by NUL; a pointer into a buffer is a 1-based index    *)
(* and the null pointer is 0.                                              *)
(*                                                                         *)
(* Environment assumptions: every waitpid call on the shell's own child    *)
(* succeeds (the program installs no signal handler and is started with    *)
(* the default SIGCHLD disposition); input lines contain no NUL byte.      *)
(***************************************************************************)
EXTENDS Integers, Sequences, FiniteSets, TLC

\* ------------------------------------------------------------------ bounds
MaxLines == 2      \* input chunks the user supplies in one session
MaxLen == 4        \* length of the lines of the tokenizer specification
MaxGrow == 2       \* reallocations of one buffer in the buffer specification

\* --------------------------------------------------------- program constants
LSH_RL_BUFSIZE == 1024
SOSHELL_TOK_BUFSIZE == 64
EXIT_SUCCESS == 0
EXIT_FAILURE == 1

NUL == "NUL"
NULL == 0
SOSHELL_TOK_DELIM_mutant_nobell == {" ", "\t", "\r", "\n"}
SOSHELL_TOK_DELIM == {" ", "\t", "\r", "\n", "BEL"}

Shell == 0
Procs == 0..MaxLines
Children == 1..MaxLines

\* ------------------------------------------------------------ builtin table
builtin_str ==
  << <<"c","d">>, <<"l","s">>, <<"r","m">>, <<"h","e","l","p">>,
     <<"e","x","i","t">> >>

builtin_func == << "soshell_cd", "soshell_ls", "soshell_rm", "soshell_help",
                   "soshell_exit" >>

soshell_num_builtins == Len(builtin_str)

\* ------------------------------------------------------------- C strings
\* The characters of the C string that starts at index i of buf.
RECURSIVE CStr(_, _)
CStr(buf, i) ==
  IF i > Len(buf) \/ buf[i] = NUL THEN <<>>
  ELSE <<buf[i]>> \o CStr(buf, i + 1)

\* strcmp(s, t) == 0 exactly when the two strings are equal.
strcmp(s, t) == IF s = t THEN 0 ELSE 1

\* ---------------------------------------------------------------- strtok
RECURSIVE SkipDelims(_, _)
SkipDelims(buf, i) ==
  IF buf[i] \in SOSHELL_TOK_DELIM THEN SkipDelims(buf, i + 1) ELSE i

RECURSIVE ScanToken(_, _)
ScanToken(buf, i) ==
  IF buf[i] = NUL \/ buf[i] \in SOSHELL_TOK_DELIM THEN i
  ELSE ScanToken(buf, i + 1)

\* One call of strtok on the buffer, save being the position the previous
\* call left (1 for the first call): skip delimiters, return the start of
\* the token and overwrite the delimiter that ends it with NUL.
strtok(buf, save) ==
  LET start == SkipDelims(buf, save)
      end == ScanToken(buf, start)
  IN IF buf[start] = NUL
       THEN [tok |-> NULL, buf |-> buf, save |-> start]
       ELSE IF buf[end] = NUL
              THEN [tok |-> start, buf |-> buf, save |-> end]
              ELSE [tok |-> start, buf |-> [buf EXCEPT ![end] = NUL],
                    save |-> end + 1]

\* ------------------------------------------------------ soshell_split_line
\* The growth step that follows position++ in soshell_split_line: the
\* capacity (in tokens) after it.
split_line_grow_mutant_double(position, bufsize) ==
  IF position >= bufsize THEN bufsize * 2 ELSE bufsize
split_line_grow(position, bufsize) ==
  IF position >= bufsize THEN bufsize + SOSHELL_TOK_BUFSIZE ELSE bufsize

\* The while loop of soshell_split_line: r is the result of the latest
\* strtok call, tokens the array written so far (position = Len(tokens)).
RECURSIVE SplitLoop(_, _, _)
SplitLoop(r, tokens, bufsize) ==
  IF r.tok = NULL
    THEN [tokens |-> Append(tokens, NULL), buf |-> r.buf, bufsize |-> bufsize]
    ELSE LET tokens2 == Append(tokens, r.tok)
             position == Len(tokens2)
             bufsize2 == split_line_grow(position, bufsize)
         IN SplitLoop(strtok(r.buf, r.save), tokens2, bufsize2)

\* soshell_split_line(line): the token array (indices into the line buffer,
\* closed by NULL), the line buffer as strtok leaves it, the final capacity.
soshell_split_line(line) ==
  SplitLoop(strtok(line, 1), <<>>, SOSHELL_TOK_BUFSIZE)

\* ------------------------------------------------------- soshell_read_line
HasNewline(stream) == \E i \in 1..Len(stream) : stream[i] = "\n"

\* The while loop of soshell_read_line over the characters getchar yields;
\* the end of stream is EOF.
\* The growth step that follows position++ in soshell_read_line: the
\* capacity (in characters) after it.
read_line_grow_mutant_late(position, bufsize) ==
  IF position > bufsize THEN bufsize + LSH_RL_BUFSIZE ELSE bufsize
read_line_grow(position, bufsize) ==
  IF position >= bufsize THEN bufsize + LSH_RL_BUFSIZE ELSE bufsize

RECURSIVE ReadLoop(_, _, _)
ReadLoop(stream, buffer, bufsize) ==
  IF stream = <<>>
    THEN [kind |-> "exit", code |-> EXIT_SUCCESS, buffer |-> <<>>,
          rest |-> <<>>, bufsize |-> bufsize]
    ELSE LET c == Head(stream) IN
         IF c = "\n"
           THEN [kind |-> "line", code |-> 0, buffer |-> Append(buffer, NUL),
                 rest |-> Tail(stream), bufsize |-> bufsize]
           ELSE LET buffer2 == Append(buffer, c)
                    position == Len(buffer2)
                    bufsize2 == read_line_grow(position, bufsize)
                IN ReadLoop(Tail(stream), buffer2, bufsize2)

soshell_read_line(stream) == ReadLoop(stream, <<>>, LSH_RL_BUFSIZE)

\* ------------------------------------------------------------ file system
\* The part of the file system the shell's commands touch: the root
\* directory "root", its subdirectory "a" (with read and search permission
\* bits) and a file named f that may exist in either directory.
Dirs == {"root", "a"}
NoDir == "nodir"

W_a == <<"a">>
W_f == <<"f">>
W_n == <<"n">>
W_x == <<"x">>
W_up == <<".", ".">>
W_dot == <<".">>
W_slash == <<"/">>

FsStates == [aR : BOOLEAN, aX : BOOLEAN, files : SUBSET Dirs]

\* The directory a path names when resolved from directory c, or NoDir.
Resolve(f, c, path) ==
  CASE path = W_slash -> "root"
    [] path = W_dot -> c
    [] path = W_up -> IF c = "a" /\ ~f.aX THEN NoDir ELSE "root"
    [] path = W_a -> IF c = "root" THEN "a" ELSE NoDir
    [] OTHER -> NoDir

\* chdir(path) in a process whose working directory is c: the return value
\* and the working directory afterwards.
chdir(f, c, path) ==
  LET t == Resolve(f, c, path) IN
  IF t = NoDir \/ (t = "a" /\ ~f.aX)
    THEN [ret |-> -1, cwd |-> c]
    ELSE [ret |-> 0, cwd |-> t]

\* The names readdir yields for directory d.
Entries(f, d) ==
  (IF d = "root" THEN {"a"} ELSE {}) \cup (IF d \in f.files THEN {"f"} ELSE {})

\* opendir(path): the null stream, or a stream over the entries.
opendir(f, c, path) ==
  LET t == Resolve(f, c, path) IN
  IF t = NoDir \/ (t = "a" /\ ~f.aR)
    THEN [null |-> TRUE, left |-> {}]
    ELSE [null |-> FALSE, left |-> Entries(f, t)]

\* remove(path): the return value and the file system afterwards.
remove(f, c, path) ==
  IF path = W_f /\ c \in f.files /\ (c = "a" => f.aX)
    THEN [ret |-> 0, fs |-> [f EXCEPT !.files = @ \ {c}]]
    ELSE [ret |-> -1, fs |-> f]

\* ------------------------------------------------------------- the input
W_cd == builtin_str[1]
W_ls == builtin_str[2]
W_rm == builtin_str[3]
W_help == builtin_str[4]
W_exit == builtin_str[5]
SP == <<" ">>

\* The command lines a user types (without the newline).
Lines ==
  { <<>>, <<" ", "\t">>,
    W_cd, W_cd \o SP \o W_a, W_cd \o SP \o W_up, W_cd \o SP \o W_n,
    W_ls, W_ls \o SP \o W_a, W_ls \o SP \o W_n, <<"\t">> \o W_ls \o <<"\r">>,
    W_rm, W_rm \o SP \o W_f, W_rm \o SP \o W_n,
    W_help, W_exit, W_exit \o SP \o W_a,
    <<"C", "D">> \o SP \o W_a, W_cd \o W_x, W_x \o SP \o SP \o W_a }

\* Two lines typed at once: the second is in the input before the first
\* has been executed.
TypeAhead == { W_exit \o <<"\n">> \o W_ls }

\* ------------------------------------------------------------------ state
VARIABLES
  pc,          \* pc[p]: where process p is in the program
  line,        \* line[p]: the buffer soshell_loop's line points to
  args,        \* args[p]: the token array soshell_loop's args points to
  status,      \* status[p]: soshell_loop's status
  wstatus,     \* wstatus[p]: soshell_launch's status, set by waitpid
  pid,         \* pid[p]: soshell_launch's pid
  cwd,         \* cwd[p]: the working directory of process p
  alloc,       \* alloc[p]: the heap blocks of the loop that are allocated
  out,         \* out[p]: what p wrote since its last prompt, <<stream, text>>
  trace,       \* trace[p]: handler calls and forks of p's current dispatch
  argv,        \* argv[p]: the argument vector p passed to execvp
  term,        \* term[p]: how process p ended
  stopPending, \* stopPending[p]: p stopped and waitpid has not reported it
  lastCd,      \* lastCd[p]: the directory p's latest successful cd named
  stdin,       \* the characters typed and not yet read
  stdinEof,    \* the input ends after the characters of stdin
  nchunks,     \* the number of chunks typed so far
  fs,          \* the file system
  gbuf         \* the growable buffer of the buffer specification

procVars == <<pc, line, args, status, wstatus, pid, cwd, alloc, out, trace,
              argv, term, stopPending, lastCd>>
mainVars == <<pc, line, args, status, wstatus, pid, cwd, alloc, out, trace,
              argv, term, stopPending, lastCd, stdin, stdinEof, nchunks, fs>>
vars == <<pc, line, args, status, wstatus, pid, cwd, alloc, out, trace,
          argv, term, stopPending, lastCd, stdin, stdinEof, nchunks, fs,
          gbuf>>

\* No buffer is followed write by write: the session specifications compute
\* soshell_read_line and soshell_split_line in one step.
GbufIdle == [fn |-> "none", at |-> "idle", position |-> 0, bufsize |-> 0,
             widx |-> -1, wcap |-> 0, caps |-> <<>>, code |-> 0]

NoTerm == [kind |-> "none", val |-> 0]
Exited(code) == [kind |-> "exited", val |-> code]
Signaled(sig) == [kind |-> "signaled", val |-> sig]
Stopped(sig) == [kind |-> "stopped", val |-> sig]

WIFEXITED(s) == s.kind = "exited"
WIFSIGNALED(s) == s.kind = "signaled"

\* The positions of soshell_loop and of the functions it calls.
LoopPcs == {"start", "prompt", "read", "split", "execute", "waitpid",
            "wait_test", "free_line", "free_args", "while"}

Init ==
  /\ pc = [p \in Procs |-> IF p = Shell THEN "start" ELSE "none"]
  /\ line = [p \in Procs |-> <<>>]
  /\ args = [p \in Procs |-> <<>>]
  /\ status = [p \in Procs |-> 1]
  /\ wstatus = [p \in Procs |-> NoTerm]
  /\ pid = [p \in Procs |-> 0]
  /\ cwd \in [Procs -> {"root"}]
  /\ alloc = [p \in Procs |-> {}]
  /\ out = [p \in Procs |-> <<>>]
  /\ trace = [p \in Procs |-> <<>>]
  /\ argv = [p \in Procs |-> <<>>]
  /\ term = [p \in Procs |-> NoTerm]
  /\ stopPending = [p \in Procs |-> FALSE]
  /\ lastCd = [p \in Procs |-> NoDir]
  /\ stdin = <<>>
  /\ stdinEof = FALSE
  /\ nchunks = 0
  /\ fs \in FsStates
  /\ gbuf = GbufIdle

\* --------------------------------------------------------------- helpers
\* The strings the token array points to (without the closing NULL).
ArgStrings(buf, tokens) ==
  [i \in 1..(Len(tokens) - 1) |-> CStr(buf, tokens[i])]

A(p) == ArgStrings(line[p], args[p])

FreePids == {c \in Children : pc[c] = "none"}

\* ------------------------------------------------------------- builtins
soshell_cd_mutant_ret(f, c, a) ==
  IF Len(a) < 2
    THEN [ret |-> 0, cwd |-> c, ok |-> FALSE,
          out |-> << <<"stderr", "soshell: expected argument to cd">> >>]
    ELSE LET r == chdir(f, c, a[2]) IN
         IF r.ret # 0
           THEN [ret |-> 1, cwd |-> r.cwd, ok |-> FALSE,
                 out |-> << <<"stderr", "soshell: perror">> >>]
           ELSE [ret |-> 1, cwd |-> r.cwd, ok |-> TRUE, out |-> <<>>]

soshell_cd_mutant_home(f, c, a) ==
  IF Len(a) < 2
    THEN [ret |-> 1, cwd |-> "root", ok |-> FALSE, out |-> <<>>]
    ELSE LET r == chdir(f, c, a[2]) IN
         IF r.ret # 0
           THEN [ret |-> 1, cwd |-> r.cwd, ok |-> FALSE,
                 out |-> << <<"stderr", "soshell: perror">> >>]
           ELSE [ret |-> 1, cwd |-> r.cwd, ok |-> TRUE, out |-> <<>>]

\* soshell_cd: the return value, the working directory afterwards, the
\* output and whether chdir succeeded.
soshell_cd(f, c, a) ==
  IF Len(a) < 2
    THEN [ret |-> 1, cwd |-> c, ok |-> FALSE,
          out |-> << <<"stderr", "soshell: expected argument to cd">> >>]
    ELSE LET r == chdir(f, c, a[2]) IN
         IF r.ret # 0
           THEN [ret |-> 1, cwd |-> r.cwd, ok |-> FALSE,
                 out |-> << <<"stderr", "soshell: perror">> >>]
           ELSE [ret |-> 1, cwd |-> r.cwd, ok |-> TRUE, out |-> <<>>]

\* while(get_next(stream)) {}: every call reads one entry and prints it,
\* until readdir returns NULL and the stream is closed.
RECURSIVE get_next_loop(_, _)
get_next_loop(left, printed) ==
  IF left = {} THEN printed
  ELSE LET entry == CHOOSE e \in left : TRUE IN
       get_next_loop(left \ {entry}, Append(printed, <<"stdout", entry>>))

\* soshell_ls: ub marks the call get_next(NULL), whose behaviour is
\* undefined (readdir and closedir on a null stream).
soshell_ls(f, c, a) ==
  LET stream == IF Len(a) < 2 THEN opendir(f, c, W_dot)
                ELSE opendir(f, c, a[2])
  IN IF Len(a) >= 2 /\ stream.null
       THEN [ret |-> 1, ub |-> FALSE,
             out |-> << <<"stdout", "Unknown directory">> >>]
       ELSE IF stream.null
         THEN [ret |-> 1, ub |-> TRUE, out |-> <<>>]
         ELSE [ret |-> 1, ub |-> FALSE, out |-> get_next_loop(stream.left, <<>>)]

soshell_rm(f, c, a) ==
  IF Len(a) < 2
    THEN [ret |-> 1, fs |-> f,
          out |-> << <<"stdout", "You must provide a file">> >>]
    ELSE LET r == remove(f, c, a[2]) IN
         IF r.ret # 0
           THEN [ret |-> 1, fs |-> r.fs,
                 out |-> << <<"stdout", "Could not remove file.">> >>]
           ELSE [ret |-> 1, fs |-> r.fs, out |-> <<>>]

soshell_help(a) ==
  [ret |-> 1,
   out |-> << <<"stdout", "Soviet Linux soshell">>,
              <<"stdout", "Type program names and arguments, and hit enter.">>,
              <<"stdout", "The following are built in:">> >>
           \o [i \in 1..soshell_num_builtins |-> <<"stdout", builtin_str[i]>>]
           \o << <<"stdout", "Use the man command for information on other programs.">> >>]

soshell_exit(a) == [ret |-> 0]

\* ------------------------------------------------------------- dispatcher
RECURSIVE ExecuteScan(_, _)
ExecuteScan(a0, i) ==
  IF i > soshell_num_builtins THEN "soshell_launch"
  ELSE IF strcmp(a0, builtin_str[i]) = 0 THEN builtin_func[i]
  ELSE ExecuteScan(a0, i + 1)

RECURSIVE ExecuteScanPrefix(_, _)
ExecuteScanPrefix(a0, i) ==
  IF i > soshell_num_builtins THEN "soshell_launch"
  ELSE IF Len(a0) >= Len(builtin_str[i])
          /\ SubSeq(a0, 1, Len(builtin_str[i])) = builtin_str[i]
         THEN builtin_func[i]
  ELSE ExecuteScanPrefix(a0, i + 1)

soshell_execute_mutant_prefix(a) ==
  IF a = <<>> THEN "return_1" ELSE ExecuteScanPrefix(a[1], 1)

\* soshell_execute: what the dispatcher does with the token strings a.
soshell_execute(a) ==
  IF a = <<>> THEN "return_1" ELSE ExecuteScan(a[1], 1)

\* ------------------------------------------------------------ loop driver
\* soshell_loop, lines 310-314: uname, fatal when it fails.
Startup(p) ==
  /\ pc[p] = "start"
  /\ \E ok \in BOOLEAN :
       IF ok
         THEN /\ pc' = [pc EXCEPT ![p] = "prompt"]
              /\ UNCHANGED <<out, term>>
         ELSE /\ pc' = [pc EXCEPT ![p] = "terminated"]
              /\ out' = [out EXCEPT ![p] = << <<"stderr", "uname: perror">> >>]
              /\ term' = [term EXCEPT ![p] = Exited(EXIT_FAILURE)]
  /\ UNCHANGED <<gbuf, line, args, status, wstatus, pid, cwd, alloc, trace, argv,
                 stopPending, lastCd, stdin, stdinEof, nchunks, fs>>

\* Lines 321-322: the two printf calls of the prompt.
Prompt(p) ==
  /\ pc[p] = "prompt"
  /\ pc' = [pc EXCEPT ![p] = "read"]
  /\ out' = [out EXCEPT ![p] = << <<"stdout", "prompt">> >>]
  /\ trace' = [trace EXCEPT ![p] = <<>>]
  /\ UNCHANGED <<gbuf, line, args, status, wstatus, pid, cwd, alloc, argv, term,
                 stopPending, lastCd, stdin, stdinEof, nchunks, fs>>

\* The user types one chunk while a process waits in getchar: a line closed
\* by a newline, or text after which the input ends.
UserInput ==
  /\ stdin = <<>>
  /\ ~stdinEof
  /\ \E p \in Procs : pc[p] = "read"
  /\ IF nchunks < MaxLines
       THEN \E text \in Lines \cup TypeAhead, nl \in BOOLEAN :
              /\ stdin' = IF nl THEN Append(text, "\n") ELSE text
              /\ stdinEof' = ~nl
              /\ nchunks' = nchunks + 1
       ELSE /\ stdin' = <<>>
            /\ stdinEof' = TRUE
            /\ nchunks' = nchunks
  /\ UNCHANGED <<gbuf, procVars, fs>>

\* line = soshell_read_line(): blocks until a newline or the end of input
\* is there; exit(EXIT_FAILURE) when malloc fails, exit(EXIT_SUCCESS) at EOF.
Read(p) ==
  /\ pc[p] = "read"
  /\ HasNewline(stdin) \/ stdinEof
  /\ \E mallocOk \in BOOLEAN :
       IF ~mallocOk
         THEN /\ pc' = [pc EXCEPT ![p] = "terminated"]
              /\ term' = [term EXCEPT ![p] = Exited(EXIT_FAILURE)]
              /\ out' = [out EXCEPT ![p] =
                           Append(@, <<"stderr", "soshell: allocation error">>)]
              /\ UNCHANGED <<line, alloc, stdin>>
         ELSE LET r == soshell_read_line(stdin) IN
              IF r.kind = "exit"
                THEN /\ pc' = [pc EXCEPT ![p] = "terminated"]
                     /\ term' = [term EXCEPT ![p] = Exited(r.code)]
                     /\ stdin' = r.rest
                     /\ UNCHANGED <<line, alloc, out>>
                ELSE /\ pc' = [pc EXCEPT ![p] = "split"]
                     /\ line' = [line EXCEPT ![p] = r.buffer]
                     /\ alloc' = [alloc EXCEPT ![p] = @ \cup {"line"}]
                     /\ stdin' = r.rest
                     /\ UNCHANGED <<term, out>>
  /\ UNCHANGED <<gbuf, args, status, wstatus, pid, cwd, trace, argv, stopPending,
                 lastCd, stdinEof, nchunks, fs>>

\* args = soshell_split_line(line).
Split(p) ==
  /\ pc[p] = "split"
  /\ \E mallocOk \in BOOLEAN :
       IF ~mallocOk
         THEN /\ pc' = [pc EXCEPT ![p] = "terminated"]
              /\ term' = [term EXCEPT ![p] = Exited(EXIT_FAILURE)]
              /\ out' = [out EXCEPT ![p] =
                           Append(@, <<"stderr", "soshell: allocation error">>)]
              /\ UNCHANGED <<line, args, alloc>>
         ELSE LET r == soshell_split_line(line[p]) IN
              /\ pc' = [pc EXCEPT ![p] = "execute"]
              /\ line' = [line EXCEPT ![p] = r.buf]
              /\ args' = [args EXCEPT ![p] = r.tokens]
              /\ alloc' = [alloc EXCEPT ![p] = @ \cup {"args"}]
              /\ UNCHANGED <<term, out>>
  /\ UNCHANGED <<gbuf, status, wstatus, pid, cwd, trace, argv, stopPending, lastCd,
                 stdin, stdinEof, nchunks, fs>>

\* ------------------------------------------------- soshell_execute, builtins
Call(p, fn) == Append(trace[p], [ev |-> "call", fn |-> fn, args |-> A(p)])

\* Lines 194-197: an empty command.
ExecuteEmpty(p) ==
  /\ pc[p] = "execute"
  /\ soshell_execute(A(p)) = "return_1"
  /\ status' = [status EXCEPT ![p] = 1]
  /\ pc' = [pc EXCEPT ![p] = "free_line"]
  /\ UNCHANGED <<gbuf, line, args, wstatus, pid, cwd, alloc, out, trace, argv, term,
                 stopPending, lastCd, stdin, stdinEof, nchunks, fs>>

ExecuteCd(p) ==
  /\ pc[p] = "execute"
  /\ soshell_execute(A(p)) = "soshell_cd"
  /\ LET r == soshell_cd(fs, cwd[p], A(p)) IN
       /\ cwd' = [cwd EXCEPT ![p] = r.cwd]
       /\ out' = [out EXCEPT ![p] = @ \o r.out]
       /\ status' = [status EXCEPT ![p] = r.ret]
       /\ lastCd' = [lastCd EXCEPT ![p] =
                       IF r.ok THEN Resolve(fs, cwd[p], A(p)[2]) ELSE @]
  /\ trace' = [trace EXCEPT ![p] = Call(p, "soshell_cd")]
  /\ pc' = [pc EXCEPT ![p] = "free_line"]
  /\ UNCHANGED <<gbuf, line, args, wstatus, pid, alloc, argv, term, stopPending,
                 stdin, stdinEof, nchunks, fs>>

\* get_next(NULL) is undefined: the process is killed by SIGSEGV, or
\* readdir returns NULL and the handler returns having printed nothing.
ExecuteLs(p) ==
  /\ pc[p] = "execute"
  /\ soshell_execute(A(p)) = "soshell_ls"
  /\ LET r == soshell_ls(fs, cwd[p], A(p)) IN
       /\ out' = [out EXCEPT ![p] = @ \o r.out]
       /\ \E segv \in (IF r.ub THEN BOOLEAN ELSE {FALSE}) :
            IF segv
              THEN /\ pc' = [pc EXCEPT ![p] = "terminated"]
                   /\ term' = [term EXCEPT ![p] = Signaled("SIGSEGV")]
                   /\ UNCHANGED status
              ELSE /\ pc' = [pc EXCEPT ![p] = "free_line"]
                   /\ status' = [status EXCEPT ![p] = r.ret]
                   /\ UNCHANGED term
  /\ trace' = [trace EXCEPT ![p] = Call(p, "soshell_ls")]
  /\ UNCHANGED <<gbuf, line, args, wstatus, pid, cwd, alloc, argv, stopPending,
                 lastCd, stdin, stdinEof, nchunks, fs>>

ExecuteRm(p) ==
  /\ pc[p] = "execute"
  /\ soshell_execute(A(p)) = "soshell_rm"
  /\ LET r == soshell_rm(fs, cwd[p], A(p)) IN
       /\ fs' = r.fs
       /\ out' = [out EXCEPT ![p] = @ \o r.out]
       /\ status' = [status EXCEPT ![p] = r.ret]
  /\ trace' = [trace EXCEPT ![p] = Call(p, "soshell_rm")]
  /\ pc' = [pc EXCEPT ![p] = "free_line"]
  /\ UNCHANGED <<gbuf, line, args, wstatus, pid, cwd, alloc, argv, term,
                 stopPending, lastCd, stdin, stdinEof, nchunks>>

ExecuteHelp(p) ==
  /\ pc[p] = "execute"
  /\ soshell_execute(A(p)) = "soshell_help"
  /\ LET r == soshell_help(A(p)) IN
       /\ out' = [out EXCEPT ![p] = @ \o r.out]
       /\ status' = [status EXCEPT ![p] = r.ret]
  /\ trace' = [trace EXCEPT ![p] = Call(p, "soshell_help")]
  /\ pc' = [pc EXCEPT ![p] = "free_line"]
  /\ UNCHANGED <<gbuf, line, args, wstatus, pid, cwd, alloc, argv, term,
                 stopPending, lastCd, stdin, stdinEof, nchunks, fs>>

ExecuteExit(p) ==
  /\ pc[p] = "execute"
  /\ soshell_execute(A(p)) = "soshell_exit"
  /\ status' = [status EXCEPT ![p] = soshell_exit(A(p)).ret]
  /\ trace' = [trace EXCEPT ![p] = Call(p, "soshell_exit")]
  /\ pc' = [pc EXCEPT ![p] = "free_line"]
  /\ UNCHANGED <<gbuf, line, args, wstatus, pid, cwd, alloc, out, argv, term,
                 stopPending, lastCd, stdin, stdinEof, nchunks, fs>>

\* --------------------------------------------------------- soshell_launch
launch_execvp_failed_mutant_return == [pc |-> "free_line", term |-> NoTerm]

\* Lines 168-171 when execvp has returned: after perror the child calls
\* exit(EXIT_FAILURE).
launch_execvp_failed == [pc |-> "terminated", term |-> Exited(EXIT_FAILURE)]

launch_wait_again_mutant_stop(s) ==
  ~WIFEXITED(s) /\ ~WIFSIGNALED(s) /\ s.kind # "stopped"

launch_wait_again_mutant_code(s) ==
  ~(WIFEXITED(s) /\ s.val = 0) /\ ~WIFSIGNALED(s)

launch_wait_again_mutant_once(s) == FALSE

\* Line 179: the condition under which the do-while calls waitpid again.
launch_wait_again(s) == ~WIFEXITED(s) /\ ~WIFSIGNALED(s)

launch_fork_failed_mutant_wait == [pc |-> "waitpid", ret |-> 1]

\* Lines 172-174 and 182: after a failed fork the parent skips the wait and
\* returns 1.
launch_fork_failed == [pc |-> "free_line", ret |-> 1]

\* Line 165 in the parent: fork fails (pid < 0, perror, return 1) or creates
\* a child that is a copy of the parent, positioned after the fork.
Fork(p) ==
  /\ pc[p] = "execute"
  /\ soshell_execute(A(p)) = "soshell_launch"
  /\ \E ok \in (IF FreePids = {} THEN {FALSE} ELSE BOOLEAN) :
       IF ~ok
         THEN /\ trace' = [trace EXCEPT ![p] =
                             Append(@, [ev |-> "fork", fn |-> "failed",
                                        args |-> A(p)])]
              /\ out' = [out EXCEPT ![p] =
                           Append(@, <<"stderr", "soshell: perror">>)]
              /\ status' = [status EXCEPT ![p] = launch_fork_failed.ret]
              /\ pc' = [pc EXCEPT ![p] = launch_fork_failed.pc]
              /\ UNCHANGED <<line, args, pid, cwd, alloc, lastCd>>
         ELSE LET c == CHOOSE x \in FreePids : \A y \in FreePids : x <= y IN
              /\ trace' = [trace EXCEPT ![p] =
                             Append(@, [ev |-> "fork", fn |-> "forked",
                                        args |-> A(p)]),
                           ![c] = <<>>]
              /\ pc' = [pc EXCEPT ![p] = "waitpid", ![c] = "execvp"]
              /\ pid' = [pid EXCEPT ![p] = c, ![c] = 0]
              /\ line' = [line EXCEPT ![c] = line[p]]
              /\ args' = [args EXCEPT ![c] = args[p]]
              /\ cwd' = [cwd EXCEPT ![c] = cwd[p]]
              /\ alloc' = [alloc EXCEPT ![c] = alloc[p]]
              /\ lastCd' = [lastCd EXCEPT ![c] = lastCd[p]]
              /\ status' = [status EXCEPT ![c] = status[p]]
              /\ out' = [out EXCEPT ![c] = <<>>]
  /\ UNCHANGED <<gbuf, wstatus, argv, term, stopPending, stdin, stdinEof, nchunks,
                 fs>>

\* Lines 166-171 in the child: execvp replaces the image, or it returns -1
\* and the child reports the error and exits.
ChildExec(c) ==
  /\ pc[c] = "execvp"
  /\ argv' = [argv EXCEPT ![c] = A(c)]
  /\ \E ok \in BOOLEAN :
       IF ok
         THEN /\ pc' = [pc EXCEPT ![c] = "running"]
              /\ line' = [line EXCEPT ![c] = <<>>]
              /\ args' = [args EXCEPT ![c] = <<>>]
              /\ alloc' = [alloc EXCEPT ![c] = {}]
              /\ lastCd' = [lastCd EXCEPT ![c] = NoDir]
              /\ UNCHANGED <<out, term, status>>
         ELSE /\ out' = [out EXCEPT ![c] =
                           Append(@, <<"stderr", "soshell: perror">>)]
              /\ pc' = [pc EXCEPT ![c] = launch_execvp_failed.pc]
              /\ term' = [term EXCEPT ![c] = launch_execvp_failed.term]
              /\ status' = [status EXCEPT ![c] =
                              IF launch_execvp_failed.pc = "terminated"
                                THEN @ ELSE 1]
              /\ UNCHANGED <<line, args, alloc, lastCd>>
  /\ UNCHANGED <<gbuf, wstatus, pid, cwd, trace, stopPending, stdin, stdinEof,
                 nchunks, fs>>

\* ---- the external program, once its image runs in the child
ChildFsOp(c) ==
  /\ pc[c] = "running"
  /\ \E f \in FsStates : f # fs /\ fs' = f
  /\ UNCHANGED <<gbuf, procVars, stdin, stdinEof, nchunks>>

ChildChdir(c) ==
  /\ pc[c] = "running"
  /\ \E d \in Dirs : d # cwd[c] /\ cwd' = [cwd EXCEPT ![c] = d]
  /\ UNCHANGED <<gbuf, pc, line, args, status, wstatus, pid, alloc, out, trace, argv,
                 term, stopPending, lastCd, stdin, stdinEof, nchunks, fs>>

ChildStop(c) ==
  /\ pc[c] = "running"
  /\ pc' = [pc EXCEPT ![c] = "stopped"]
  /\ stopPending' = [stopPending EXCEPT ![c] = TRUE]
  /\ UNCHANGED <<gbuf, line, args, status, wstatus, pid, cwd, alloc, out, trace,
                 argv, term, lastCd, stdin, stdinEof, nchunks, fs>>

ChildCont(c) ==
  /\ pc[c] = "stopped"
  /\ pc' = [pc EXCEPT ![c] = "running"]
  /\ stopPending' = [stopPending EXCEPT ![c] = FALSE]
  /\ UNCHANGED <<gbuf, line, args, status, wstatus, pid, cwd, alloc, out, trace,
                 argv, term, lastCd, stdin, stdinEof, nchunks, fs>>

ChildExit(c) ==
  /\ pc[c] = "running"
  /\ \E code \in {0, 1} : term' = [term EXCEPT ![c] = Exited(code)]
  /\ pc' = [pc EXCEPT ![c] = "terminated"]
  /\ UNCHANGED <<gbuf, line, args, status, wstatus, pid, cwd, alloc, out, trace,
                 argv, stopPending, lastCd, stdin, stdinEof, nchunks, fs>>

ChildKilled(c) ==
  /\ pc[c] \in {"running", "stopped"}
  /\ term' = [term EXCEPT ![c] = Signaled("SIGKILL")]
  /\ pc' = [pc EXCEPT ![c] = "terminated"]
  /\ stopPending' = [stopPending EXCEPT ![c] = FALSE]
  /\ UNCHANGED <<gbuf, line, args, status, wstatus, pid, cwd, alloc, out, trace,
                 argv, lastCd, stdin, stdinEof, nchunks, fs>>

\* Line 178: waitpid(pid, &status, WUNTRACED) blocks until the child has
\* terminated (and reaps it) or has stopped (reported once per stop).
Waitpid(p) ==
  /\ pc[p] = "waitpid"
  /\ LET c == pid[p] IN
       \/ /\ pc[c] = "terminated"
          /\ wstatus' = [wstatus EXCEPT ![p] = term[c]]
          /\ pc' = [pc EXCEPT ![p] = "wait_test", ![c] = "reaped"]
          /\ term' = [term EXCEPT ![c] = NoTerm]
          /\ out' = [out EXCEPT ![c] = <<>>]
          /\ argv' = [argv EXCEPT ![c] = <<>>]
          /\ cwd' = [cwd EXCEPT ![c] = "root"]
          /\ line' = [line EXCEPT ![c] = <<>>]
          /\ args' = [args EXCEPT ![c] = <<>>]
          /\ alloc' = [alloc EXCEPT ![c] = {}]
          /\ lastCd' = [lastCd EXCEPT ![c] = NoDir]
          /\ status' = [status EXCEPT ![c] = 1]
          /\ UNCHANGED stopPending
       \/ /\ pc[c] = "stopped"
          /\ stopPending[c]
          /\ wstatus' = [wstatus EXCEPT ![p] = Stopped("SIGSTOP")]
          /\ pc' = [pc EXCEPT ![p] = "wait_test"]
          /\ stopPending' = [stopPending EXCEPT ![c] = FALSE]
          /\ UNCHANGED <<term, out, argv, cwd, line, args, alloc, lastCd,
                         status>>
  /\ UNCHANGED <<gbuf, pid, trace, stdin, stdinEof, nchunks, fs>>

\* Line 179 and line 182: wait again, or return 1.
WaitTest(p) ==
  /\ pc[p] = "wait_test"
  /\ IF launch_wait_again(wstatus[p])
       THEN /\ pc' = [pc EXCEPT ![p] = "waitpid"]
            /\ UNCHANGED status
       ELSE /\ pc' = [pc EXCEPT ![p] = "free_line"]
            /\ status' = [status EXCEPT ![p] = 1]
  /\ UNCHANGED <<gbuf, line, args, wstatus, pid, cwd, alloc, out, trace, argv, term,
                 stopPending, lastCd, stdin, stdinEof, nchunks, fs>>

\* ------------------------------------------------ the end of an iteration
\* Line 327: free(line).
FreeLine(p) ==
  /\ pc[p] = "free_line"
  /\ alloc' = [alloc EXCEPT ![p] = @ \ {"line"}]
  /\ pc' = [pc EXCEPT ![p] = "free_args"]
  /\ UNCHANGED <<gbuf, line, args, status, wstatus, pid, cwd, out, trace, argv, term,
                 stopPending, lastCd, stdin, stdinEof, nchunks, fs>>

FreeArgs_mutant_leak(p) ==
  /\ pc[p] = "free_args"
  /\ line' = [line EXCEPT ![p] = <<>>]
  /\ args' = [args EXCEPT ![p] = <<>>]
  /\ pc' = [pc EXCEPT ![p] = "while"]
  /\ UNCHANGED <<gbuf, alloc, status, wstatus, pid, cwd, out, trace, argv, term,
                 stopPending, lastCd, stdin, stdinEof, nchunks, fs>>

\* Line 328: free(args).
FreeArgs(p) ==
  /\ pc[p] = "free_args"
  /\ alloc' = [alloc EXCEPT ![p] = @ \ {"args"}]
  /\ line' = [line EXCEPT ![p] = <<>>]
  /\ args' = [args EXCEPT ![p] = <<>>]
  /\ pc' = [pc EXCEPT ![p] = "while"]
  /\ UNCHANGED <<gbuf, status, wstatus, pid, cwd, out, trace, argv, term,
                 stopPending, lastCd, stdin, stdinEof, nchunks, fs>>

loop_continues_mutant_always(s) == TRUE

\* Line 329: the condition of the do-while of soshell_loop.
loop_continues(s) == s # 0

loop_head_mutant_read == "read"

\* Lines 320-321: the body of the do-while starts with the prompt.
loop_head == "prompt"

\* Line 329: while (status); when the loop ends main returns EXIT_SUCCESS.
While(p) ==
  /\ pc[p] = "while"
  /\ IF loop_continues(status[p])
       THEN /\ pc' = [pc EXCEPT ![p] = loop_head]
            /\ UNCHANGED term
       ELSE /\ pc' = [pc EXCEPT ![p] = "terminated"]
            /\ term' = [term EXCEPT ![p] = Exited(EXIT_SUCCESS)]
  /\ UNCHANGED <<gbuf, line, args, status, wstatus, pid, cwd, alloc, out, trace,
                 argv, stopPending, lastCd, stdin, stdinEof, nchunks, fs>>

\* ---------------------------------------------------------- specification
ShellStep(p) ==
  \/ Startup(p) \/ Prompt(p) \/ Read(p) \/ Split(p)
  \/ ExecuteEmpty(p) \/ ExecuteCd(p) \/ ExecuteLs(p) \/ ExecuteRm(p)
  \/ ExecuteHelp(p) \/ ExecuteExit(p)
  \/ Fork(p) \/ Waitpid(p) \/ WaitTest(p)
  \/ FreeLine(p) \/ FreeArgs(p) \/ While(p)

ChildStep(c) ==
  \/ ChildExec(c) \/ ChildFsOp(c) \/ ChildChdir(c)
  \/ ChildStop(c) \/ ChildCont(c) \/ ChildExit(c) \/ ChildKilled(c)

Next ==
  \/ UserInput
  \/ \E p \in Procs : ShellStep(p)
  \/ \E c \in Procs : ChildStep(c)

Spec == Init /\ [][Next]_vars

\* The shell is scheduled whenever it can take a step; nothing is assumed
\* about the external program.
LiveSpec == Init /\ [][Next]_vars /\ WF_vars(ShellStep(Shell))

\* ------------------------------------------ the tokenizer on its own
Alphabet == {" ", "\t", "\r", "\n", "BEL", "a", "b"}

BoundedSeq(S, n) == UNION {[1..k -> S] : k \in 0..n}

\* The shell holds an arbitrary line and is about to tokenize it.
InitTok ==
  /\ pc = [p \in Procs |-> IF p = Shell THEN "split" ELSE "none"]
  /\ line \in {[p \in Procs |-> IF p = Shell THEN Append(t, NUL) ELSE <<>>] :
                 t \in BoundedSeq(Alphabet, MaxLen)}
  /\ args = [p \in Procs |-> <<>>]
  /\ status = [p \in Procs |-> 1]
  /\ wstatus = [p \in Procs |-> NoTerm]
  /\ pid = [p \in Procs |-> 0]
  /\ cwd = [p \in Procs |-> "root"]
  /\ alloc = [p \in Procs |-> IF p = Shell THEN {"line"} ELSE {}]
  /\ out = [p \in Procs |-> IF p = Shell THEN << <<"stdout", "prompt">> >>
                            ELSE <<>>]
  /\ trace = [p \in Procs |-> <<>>]
  /\ argv = [p \in Procs |-> <<>>]
  /\ term = [p \in Procs |-> NoTerm]
  /\ stopPending = [p \in Procs |-> FALSE]
  /\ lastCd = [p \in Procs |-> NoDir]
  /\ stdin = <<>>
  /\ stdinEof = FALSE
  /\ nchunks = 1
  /\ fs = [aR |-> TRUE, aX |-> TRUE, files |-> {}]
  /\ gbuf = GbufIdle

NextTok == Split(Shell)

SpecTok == InitTok /\ [][NextTok]_vars

\* ------------------------------------------------ the buffers, write by write
\* soshell_read_line and soshell_split_line followed one loop iteration at
\* a time.  gbuf.position and gbuf.bufsize are the function's locals,
\* gbuf.widx and gbuf.wcap the index of its latest write to the buffer and
\* the capacity the buffer had at that write (widx = -1: nothing written
\* yet), gbuf.caps the capacities the buffer has had.  The input is chosen
\* as the loop goes: each iteration meets an ordinary character, a newline
\* or the end of input (reader), a token or the end of the line (tokenizer).
\* Lines are far shorter than INT_MAX characters.
GbufStart(fn, bufsize) ==
  [fn |-> fn, at |-> "loop", position |-> 0, bufsize |-> bufsize,
   widx |-> -1, wcap |-> bufsize, caps |-> <<bufsize>>, code |-> 0]

\* Either function has allocated its buffer and enters its loop.
InitBuf ==
  /\ gbuf \in {GbufStart("soshell_read_line", LSH_RL_BUFSIZE),
               GbufStart("soshell_split_line", SOSHELL_TOK_BUFSIZE)}
  /\ pc = [p \in Procs |->
             IF p # Shell THEN "none"
             ELSE IF gbuf.fn = "soshell_read_line" THEN "read" ELSE "split"]
  /\ line = [p \in Procs |-> <<>>]
  /\ args = [p \in Procs |-> <<>>]
  /\ status = [p \in Procs |-> 1]
  /\ wstatus = [p \in Procs |-> NoTerm]
  /\ pid = [p \in Procs |-> 0]
  /\ cwd = [p \in Procs |-> "root"]
  /\ alloc = [p \in Procs |->
                IF p = Shell /\ gbuf.fn = "soshell_split_line"
                  THEN {"line"} ELSE {}]
  /\ out = [p \in Procs |-> IF p = Shell THEN << <<"stdout", "prompt">> >>
                            ELSE <<>>]
  /\ trace = [p \in Procs |-> <<>>]
  /\ argv = [p \in Procs |-> <<>>]
  /\ term = [p \in Procs |-> NoTerm]
  /\ stopPending = [p \in Procs |-> FALSE]
  /\ lastCd = [p \in Procs |-> NoDir]
  /\ stdin = <<>>
  /\ stdinEof = FALSE
  /\ nchunks = 1
  /\ fs = [aR |-> TRUE, aX |-> TRUE, files |-> {}]

\* One iteration that stores an element at buffer[position], increments
\* position and runs the growth step; realloc succeeds or fails.
GbufStore(bufsize2, ok) ==
  LET grown == bufsize2 # gbuf.bufsize IN
  [gbuf EXCEPT !.widx = gbuf.position,
               !.wcap = gbuf.bufsize,
               !.position = gbuf.position + 1,
               !.bufsize = bufsize2,
               !.caps = IF grown /\ ok THEN Append(@, bufsize2) ELSE @,
               !.at = IF grown /\ ~ok THEN "exit" ELSE "loop",
               !.code = IF grown /\ ~ok THEN EXIT_FAILURE ELSE @]

\* The final store at buffer[position], after which the function returns.
GbufClose ==
  [gbuf EXCEPT !.widx = gbuf.position, !.wcap = gbuf.bufsize,
               !.at = "return"]

\* getchar returns an ordinary character.
ReadLineChar ==
  /\ gbuf.fn = "soshell_read_line" /\ gbuf.at = "loop"
  /\ gbuf.bufsize <= MaxGrow * LSH_RL_BUFSIZE
  /\ \E ok \in BOOLEAN :
       gbuf' = GbufStore(read_line_grow(gbuf.position + 1, gbuf.bufsize), ok)
  /\ UNCHANGED mainVars

\* getchar returns '\n': the terminator is stored and the buffer returned.
ReadLineNewline ==
  /\ gbuf.fn = "soshell_read_line" /\ gbuf.at = "loop"
  /\ gbuf' = GbufClose
  /\ UNCHANGED mainVars

\* getchar returns EOF.
ReadLineEof ==
  /\ gbuf.fn = "soshell_read_line" /\ gbuf.at = "loop"
  /\ gbuf' = [gbuf EXCEPT !.at = "exit", !.code = EXIT_SUCCESS]
  /\ UNCHANGED mainVars

\* strtok returned a token.
SplitLineToken ==
  /\ gbuf.fn = "soshell_split_line" /\ gbuf.at = "loop"
  /\ gbuf.bufsize <= MaxGrow * SOSHELL_TOK_BUFSIZE
  /\ \E ok \in BOOLEAN :
       gbuf' = GbufStore(split_line_grow(gbuf.position + 1, gbuf.bufsize), ok)
  /\ UNCHANGED mainVars

\* strtok returned NULL: the closing NULL is stored and the array returned.
SplitLineEnd ==
  /\ gbuf.fn = "soshell_split_line" /\ gbuf.at = "loop"
  /\ gbuf' = GbufClose
  /\ UNCHANGED mainVars

NextBuf ==
  \/ ReadLineChar
  \/ ReadLineNewline
  \/ ReadLineEof
  \/ SplitLineToken
  \/ SplitLineEnd

SpecBuf == InitBuf /\ [][NextBuf]_vars

\* ================================================================ claims
WaitPcs == {"waitpid", "wait_test"}
LiveChild(c) == pc[c] \notin {"none", "reaped"}

\* C1: whenever soshell_execute has returned, it returned 0 (terminate) if
\* and only if the first token is exactly "exit"; every other path that
\* returns (empty line, cd, ls, rm, help, the launcher) returned 1.
C1_TerminateIffExit ==
  \A p \in Procs :
    pc[p] = "free_line" =>
      /\ status[p] \in {0, 1}
      /\ status[p] = 0 <=> (A(p) # <<>> /\ A(p)[1] = <<"e", "x", "i", "t">>)

\* exit with an argument returned terminate, after an earlier external
\* command whose child was killed by a signal had returned continue.
C1_Witness ==
  /\ pc[Shell] = "free_line"
  /\ status[Shell] = 0
  /\ A(Shell) = << <<"e", "x", "i", "t">>, <<"a">> >>
  /\ wstatus[Shell].kind = "signaled"

\* C2: after a successful fork the launcher leaves its wait only with a
\* report that the child exited or was killed by a signal (the child is
\* then reaped); a report that the child stopped sends it back to waitpid,
\* and while the child stays stopped the parent stays in the wait.
C2_Step ==
  \A p \in Procs :
    /\ (pc[p] \in WaitPcs /\ pc'[p] \notin WaitPcs) =>
         /\ wstatus'[p].kind \in {"exited", "signaled"}
         /\ pc'[pid[p]] = "reaped"
         /\ pc'[p] = "free_line"
    /\ (pc[p] = "wait_test" /\ wstatus[p].kind = "stopped") =>
         pc'[p] \in WaitPcs
    /\ (pc[p] \in WaitPcs /\ pc[pid[p]] = "stopped"
        /\ pc'[pid[p]] = "stopped") => pc'[p] \in WaitPcs

C2_WaitsThroughStop == [][C2_Step]_vars

\* The stop of the child was reported and the launcher is in waitpid again.
C2_Witness ==
  /\ pc[Shell] = "waitpid"
  /\ wstatus[Shell].kind = "stopped"
  /\ pc[pid[Shell]] = "stopped"
  /\ ~stopPending[pid[Shell]]

\* C3: once a child has terminated (exec failure, exit with any code, death
\* by signal) the shell eventually reaps it and renders the next prompt.
C3_PromptsAgain ==
  \A c \in Children :
    (pc[c] = "terminated") ~> (pc[c] = "reaped" /\ pc[Shell] = "read")

\* The shell has prompted again after a child that exited with a failure
\* status.
C3_Witness ==
  /\ pc[Shell] = "read"
  /\ pid[Shell] \in Children
  /\ pc[pid[Shell]] = "reaped"
  /\ wstatus[Shell] = Exited(EXIT_FAILURE)
  /\ out[Shell] = << <<"stdout", "prompt">> >>

ExecFailed(c) == \E i \in 1..Len(out[c]) : out[c][i] = <<"stderr", "soshell: perror">>

\* C4: a child whose execvp failed has reported the error and is terminated
\* with a failure status; no child is ever at a position of the shell loop
\* (prompt, read, split, dispatch, free), and the shell, until it ends, is
\* the one process in the loop.
C4_OneShell ==
  /\ \A c \in Children :
       /\ pc[c] \notin LoopPcs
       /\ (pc[c] \notin {"none", "execvp"} /\ ExecFailed(c)) =>
            (pc[c] = "terminated" /\ term[c] = Exited(EXIT_FAILURE))
  /\ {p \in Procs : pc[p] \in LoopPcs} =
       (IF pc[Shell] = "terminated" THEN {} ELSE {Shell})

\* A child whose execvp failed is a zombie with status EXIT_FAILURE while
\* the shell waits for it.
C4_Witness ==
  \E c \in Children :
    /\ pc[c] = "terminated"
    /\ ExecFailed(c)
    /\ term[c] = Exited(EXIT_FAILURE)
    /\ pc[Shell] = "waitpid"
    /\ pid[Shell] = c

\* C5: at most one child is live (forked and not yet reaped), and while one
\* is live the shell is inside the wait of soshell_launch: it is not at the
\* fork, the prompt or the read.
C5_OneChild ==
  /\ Cardinality({c \in Children : LiveChild(c)}) <= 1
  /\ \A c \in Children :
       LiveChild(c) => (pc[Shell] \in WaitPcs /\ pid[Shell] = c)

\* A second child runs after the first one was reaped.
C5_Witness ==
  \E c, d \in Children :
    /\ pc[c] = "reaped"
    /\ pc[d] = "running"
    /\ pc[Shell] = "waitpid"

BuiltinNames ==
  { <<"c", "d">>, <<"l", "s">>, <<"r", "m">>, <<"h", "e", "l", "p">>,
    <<"e", "x", "i", "t">> }

HandlerNamed(name) ==
  CASE name = <<"c", "d">> -> "soshell_cd"
    [] name = <<"l", "s">> -> "soshell_ls"
    [] name = <<"r", "m">> -> "soshell_rm"
    [] name = <<"h", "e", "l", "p">> -> "soshell_help"
    [] name = <<"e", "x", "i", "t">> -> "soshell_exit"

Dispatched(p) ==
  \/ pc[p] \in {"free_line"} \cup WaitPcs
  \/ pc[p] = "terminated" /\ term[p].kind = "signaled"

\* C6: an empty token sequence invokes no handler and forks nothing; a first
\* token equal to a builtin name invokes exactly that handler, once, with
\* the full token sequence, and forks nothing; any other first token invokes
\* no handler and attempts exactly one fork, and the child passes the full
\* token sequence to execvp.
C6_Routing ==
  /\ \A p \in Procs :
       Dispatched(p) =>
         LET a == A(p) IN
         IF a = <<>> THEN trace[p] = <<>>
         ELSE IF a[1] \in BuiltinNames
           THEN trace[p] = << [ev |-> "call", fn |-> HandlerNamed(a[1]),
                               args |-> a] >>
           ELSE /\ Len(trace[p]) = 1
                /\ trace[p][1].ev = "fork"
                /\ trace[p][1].args = a
                /\ trace[p][1].fn \in {"failed", "forked"}
                /\ pc[p] \in WaitPcs => trace[p][1].fn = "forked"
  /\ \A c \in Children :
       (LiveChild(c) /\ pc[c] # "execvp") => argv[c] = A(Shell)

\* A name that has a builtin name as a prefix was forked and the child
\* passed it to execvp.
C6_Witness ==
  \E c \in Children :
    /\ pc[c] = "running"
    /\ argv[c] = << <<"c", "d", "x">> >>
    /\ trace[Shell] = << [ev |-> "fork", fn |-> "forked",
                          args |-> << <<"c", "d", "x">> >>] >>

Delimiters == {" ", "\t", "\r", "\n", "BEL"}

\* The maximal runs of non-delimiter characters of text, as <<first, last>>.
MaximalRuns(text) ==
  {r \in (1..Len(text)) \X (1..Len(text)) :
     /\ r[1] <= r[2]
     /\ \A k \in r[1]..r[2] : text[k] \notin Delimiters
     /\ r[1] = 1 \/ text[r[1] - 1] \in Delimiters
     /\ r[2] = Len(text) \/ text[r[2] + 1] \in Delimiters}

TokensAreRuns(text, buf, tokens) ==
  LET runs == MaximalRuns(text)
      n == Cardinality(runs)
  IN /\ Len(tokens) = n + 1
     /\ tokens[n + 1] = NULL
     /\ \A k \in 1..n :
          /\ \E r \in runs : /\ tokens[k] = r[1]
                             /\ CStr(buf, tokens[k]) = SubSeq(text, r[1], r[2])
          /\ k < n => tokens[k] < tokens[k + 1]
          /\ CStr(buf, tokens[k]) # <<>>
          /\ \A i \in 1..Len(CStr(buf, tokens[k])) :
               CStr(buf, tokens[k])[i] \notin Delimiters

\* C7: soshell_split_line returns exactly the maximal runs of non-delimiter
\* characters of the line, left to right, followed by the terminator: no
\* empty token, no delimiter inside a token, and only the terminator for an
\* empty or all-delimiter line.
C7_MaximalRuns ==
  [][\A p \in Procs :
       (pc[p] = "split" /\ pc'[p] = "execute") =>
         TokensAreRuns(CStr(line[p], 1), line'[p], args'[p])]_vars

\* The line <BEL>a<TAB>b was split into the tokens a and b.
C7_Witness ==
  /\ pc[Shell] = "execute"
  /\ args[Shell] = <<2, 4, NULL>>
  /\ line[Shell] = <<"BEL", "a", NUL, "b", NUL>>

\* C8: the working directory of the shell process changes only in a cd step
\* whose chdir succeeds, and then to the directory the argument names.
C8_CwdFrame ==
  [][cwd'[Shell] # cwd[Shell] =>
       /\ pc[Shell] = "execute"
       /\ Len(A(Shell)) >= 2
       /\ A(Shell)[1] = <<"c", "d">>
       /\ chdir(fs, cwd[Shell], A(Shell)[2]).ret = 0
       /\ cwd'[Shell] = Resolve(fs, cwd[Shell], A(Shell)[2])]_vars

\* After an external program has run, cd a has moved the shell from the
\* root directory to a.
C8_Witness ==
  /\ cwd[Shell] = "a"
  /\ pc[Shell] = "free_line"
  /\ A(Shell) = << <<"c", "d">>, <<"a">> >>
  /\ \E c \in Children : pc[c] = "reaped"

Listed(o) ==
  LET names == SelectSeq(o, LAMBDA e : e # <<"stdout", "prompt">>)
  IN [i \in 1..Len(names) |-> names[i][2]]

\* C9: after a successful cd d, an ls without argument lists the entries
\* directory d has at that moment, each once.
C9_LsListsCwd ==
  \A p \in Procs :
    (lastCd[p] # NoDir /\ A(p) = << <<"l", "s">> >>
     /\ pc[p] \in {"free_line", "terminated"}) =>
      /\ pc[p] = "free_line"
      /\ Len(Listed(out[p])) = Cardinality(Entries(fs, lastCd[p]))
      /\ {Listed(out[p])[i] : i \in 1..Len(Listed(out[p]))} =
           Entries(fs, lastCd[p])

\* C10: when the input ends after one or more characters without a
\* newline, the reader returns those characters as the line (they are then
\* tokenized); the reader ends the process only at an end of input with no
\* partial data.
C10_PartialLineReturned ==
  [][\A p \in Procs :
       (/\ pc[p] = "read" /\ pc'[p] # "read"
        /\ stdin # <<>> /\ ~HasNewline(stdin) /\ stdinEof
        /\ term'[p] # Exited(EXIT_FAILURE)) =>
         (pc'[p] = "split" /\ CStr(line'[p], 1) = stdin)]_vars

\* C11: the shell process ends only with status 0 after the exit builtin or
\* at the end of input, or with a non-zero status after an allocation
\* failure of the reader or tokenizer or a failure of uname at startup.
C11_ShellEnds ==
  pc[Shell] = "terminated" =>
    \/ /\ term[Shell] = Exited(0)
       /\ status[Shell] = 0 \/ (stdinEof /\ stdin = <<>>)
    \/ /\ term[Shell].kind = "exited"
       /\ term[Shell].val # 0
       /\ out[Shell] # <<>>
       /\ out[Shell][Len(out[Shell])] \in
            { <<"stderr", "soshell: allocation error">>,
              <<"stderr", "uname: perror">> }

LsPath(a) == IF Len(a) >= 2 THEN a[2] ELSE <<".">>

\* C12: when the directory ls is to list cannot be opened, whether named by
\* token[1] or the default current directory, the handler prints the
\* unknown-directory message, lists nothing and returns continue.
C12_LsUnopenable ==
  \A p \in Procs :
    (/\ Dispatched(p)
     /\ A(p) # <<>>
     /\ A(p)[1] = <<"l", "s">>
     /\ opendir(fs, cwd[p], LsPath(A(p))).null) =>
      /\ pc[p] = "free_line"
      /\ status[p] = 1
      /\ Len(out[p]) = 2
      /\ out[p][2][2] = "Unknown directory"

RecoverableErrorTexts ==
  { "soshell: expected argument to cd", "soshell: perror",
    "Unknown directory", "You must provide a file", "Could not remove file." }

\* C13: every recoverable error message is written to the diagnostic stream
\* and never to normal output.
C13_ErrorsToStderr ==
  \A p \in Procs :
    \A i \in 1..Len(out[p]) :
      out[p][i][2] \in RecoverableErrorTexts => out[p][i][1] = "stderr"

\* C14: when fork fails, soshell_launch reports the error on stderr,
\* performs no wait (its status and pid stay untouched), creates no child
\* and returns continue.
C14_ForkFailure ==
  [][\A p \in Procs :
       (/\ pc[p] = "execute"
        /\ trace'[p] # trace[p]
        /\ trace'[p][Len(trace'[p])].ev = "fork"
        /\ trace'[p][Len(trace'[p])].fn = "failed") =>
         /\ pc'[p] = "free_line"
         /\ status'[p] = 1
         /\ wstatus' = wstatus
         /\ pid' = pid
         /\ \A c \in Children : pc'[c] = pc[c]
         /\ out'[p] = Append(out[p], <<"stderr", "soshell: perror">>)]_vars

\* The launcher has returned continue after a failed fork and no child
\* exists.
C14_Witness ==
  /\ pc[Shell] = "free_line"
  /\ Len(trace[Shell]) = 1
  /\ trace[Shell][1].fn = "failed"
  /\ status[Shell] = 1
  /\ \A c \in Children : pc[c] = "none"

\* C15: the loop starts another iteration exactly when the dispatch
\* returned continue; once a dispatch has returned terminate the shell
\* renders no prompt, consumes no input, dispatches nothing and ends with
\* status 0.
C15_Step ==
  \A p \in Procs :
    /\ (pc[p] = "while" /\ pc'[p] # "while") =>
         IF status[p] = 1 THEN pc'[p] = "prompt"
         ELSE pc'[p] = "terminated" /\ term'[p] = Exited(0)
    /\ (pc'[p] = "prompt" /\ pc[p] # "prompt") =>
         (pc[p] = "start" \/ (pc[p] = "while" /\ status[p] = 1))
    /\ status[p] = 0 =>
         /\ status'[p] = 0
         /\ pc[p] \in {"free_line", "free_args", "while", "terminated"}
         /\ pc'[p] \in {"free_line", "free_args", "while", "terminated"}
         /\ out'[p] = out[p]
         /\ trace'[p] = trace[p]
         /\ stdin' = stdin

C15_LoopEndsOnTerminate == [][C15_Step]_vars

\* The shell has ended with status 0 after exit, and the line typed after
\* exit is still unread in the input.
C15_Witness ==
  /\ pc[Shell] = "terminated"
  /\ term[Shell] = Exited(0)
  /\ status[Shell] = 0
  /\ stdin = <<"l", "s", "\n">>

IterationOrder ==
  { <<"start", "prompt">>, <<"prompt", "read">>, <<"read", "split">>,
    <<"split", "execute">>, <<"execute", "free_line">>,
    <<"execute", "waitpid">>, <<"waitpid", "wait_test">>,
    <<"wait_test", "waitpid">>, <<"wait_test", "free_line">>,
    <<"free_line", "free_args">>, <<"free_args", "while">>,
    <<"while", "prompt">> }

PromptCount(o) == Len(SelectSeq(o, LAMBDA e : e = <<"stdout", "prompt">>))

\* C16: in every iteration the shell renders the prompt, reads the command
\* line, tokenizes it, dispatches it, releases the line and releases the
\* token array, in this order and each once; from the read to the end of
\* the iteration exactly one prompt has been rendered, before the read.
C16_Step ==
  \A p \in Procs :
    /\ pc[p] \in {"read", "split", "execute", "waitpid", "wait_test",
                  "free_line", "free_args", "while"} =>
         (PromptCount(out[p]) = 1 /\ out[p][1] = <<"stdout", "prompt">>)
    /\ (pc[p] \in LoopPcs /\ pc'[p] # pc[p] /\ pc'[p] # "terminated") =>
         <<pc[p], pc'[p]>> \in IterationOrder
    /\ (pc[p] = "prompt" /\ pc'[p] = "read") =>
         (out'[p] = << <<"stdout", "prompt">> >> /\ stdin' = stdin)
    /\ (pc[p] = "read" /\ pc'[p] = "split") =>
         /\ stdin' # stdin
         /\ alloc[p] = {}
         /\ alloc'[p] = {"line"}
    /\ (pc[p] = "split" /\ pc'[p] = "execute") =>
         /\ alloc'[p] = {"line", "args"}
         /\ trace'[p] = <<>>
    /\ (pc[p] = "execute" /\ pc'[p] \in {"free_line", "waitpid"}) =>
         /\ trace[p] = <<>>
         /\ Len(trace'[p]) = (IF A(p) = <<>> THEN 0 ELSE 1)
         /\ alloc'[p] = {"line", "args"}
    /\ (pc[p] = "free_line" /\ pc'[p] = "free_args") =>
         (alloc[p] = {"line", "args"} /\ alloc'[p] = {"args"})
    /\ (pc[p] = "free_args" /\ pc'[p] = "while") =>
         (alloc[p] = {"args"} /\ alloc'[p] = {})

C16_IterationOrder == [][C16_Step]_vars

\* The second iteration has dispatched its command and released both
\* buffers.
C16_Witness ==
  /\ pc[Shell] = "while"
  /\ nchunks = 2
  /\ Len(trace[Shell]) = 1
  /\ out[Shell][1] = <<"stdout", "prompt">>
  /\ alloc[Shell] = {}

\* C17: in the shell process the command line and the token array are both
\* allocated for the whole dispatch, the line is released first and the
\* token array second, each while it is still allocated, and nothing of an
\* iteration is allocated when the next one starts.
C17_BufferLifecycle ==
  /\ pc[Shell] \in {"start", "prompt", "read", "while"} => alloc[Shell] = {}
  /\ pc[Shell] = "split" => alloc[Shell] = {"line"}
  /\ pc[Shell] \in {"execute", "waitpid", "wait_test", "free_line"} =>
       alloc[Shell] = {"line", "args"}
  /\ pc[Shell] = "free_args" => alloc[Shell] = {"args"}

\* An iteration that dispatched a command is over, both buffers are
\* released and the next iteration is about to render its prompt.
C17_Witness ==
  /\ pc[Shell] = "prompt"
  /\ Len(trace[Shell]) = 1
  /\ trace[Shell][1].ev = "call"
  /\ alloc[Shell] = {}

\* C18: in soshell_read_line and in soshell_split_line every store, the
\* closing terminator included, uses an index below the capacity the buffer
\* has at that store, and at the head of every iteration the index of the
\* next store is already below the capacity (the buffer grew beforehand).
C18_WritesInBounds ==
  /\ gbuf.widx < gbuf.wcap
  /\ gbuf.at = "loop" => gbuf.position < gbuf.bufsize

\* A line of exactly LSH_RL_BUFSIZE characters: its terminator is stored
\* at the index that was the initial capacity, in the grown buffer.
C18_Witness ==
  /\ gbuf.fn = "soshell_read_line"
  /\ gbuf.at = "return"
  /\ gbuf.widx = LSH_RL_BUFSIZE
  /\ gbuf.wcap = 2 * LSH_RL_BUFSIZE

\* C19 as stated: the token array starts with capacity 64 and each growth
\* multiplies the capacity by one constant factor greater than 1.
C19_Geometric ==
  gbuf.fn = "soshell_split_line" =>
    /\ gbuf.caps[1] = 64
    /\ \A i \in 1..(Len(gbuf.caps) - 1) : gbuf.caps[i + 1] > gbuf.caps[i]
    /\ \A i \in 1..(Len(gbuf.caps) - 2) :
         gbuf.caps[i + 2] * gbuf.caps[i] = gbuf.caps[i + 1] * gbuf.caps[i + 1]

\* C19, amended: the token array starts with capacity 64 and each growth
\* adds 64 to the capacity: 64, 128, 192, ...
C19_Arithmetic ==
  gbuf.fn = "soshell_split_line" =>
    /\ gbuf.caps[1] = 64
    /\ \A i \in 1..(Len(gbuf.caps) - 1) : gbuf.caps[i + 1] = gbuf.caps[i] + 64

\* The tokenizer has grown its array twice.
C19_Witness ==
  /\ gbuf.fn = "soshell_split_line"
  /\ gbuf.caps = <<64, 128, 192>>

====
